---- MODULE Spec2Model ----
(***************************************************************************)
(* FitInsight AI (src/app.py): a Streamlit script that is re-executed from *)
(* top to bottom on every user interaction.  The state that survives a     *)
(* script run is the users table of users.db, st.session_state and the     *)
(* widget values; the module globals (members, total_revenue, ...) are     *)
(* rebuilt by every run.  One action below is one script run, started by   *)
(* one user interaction or by st.rerun().                                  *)
(***************************************************************************)
EXTENDS Integers, Sequences, FiniteSets, TLC

VARIABLES
    users,          \* users table: rows [email, password], in insertion order
    first_signup,   \* history: email -> password of its first successful signup
    last_auth,      \* history: the last signup()/login() call and what it returned
    logged_in,      \* st.session_state.logged_in
    user_email,     \* st.session_state.user_email
    rerun,          \* st.rerun() was called: the script is about to run again
    uploaded_file,  \* value of the st.file_uploader widget
    page,           \* value of the sidebar "Navigate" radio
    run,            \* history: the last script run (start state, steps, messages)
    env             \* module globals assigned by the last script run

vars == <<users, first_signup, last_auth, logged_in, user_email, rerun,
          uploaded_file, page, run, env>>

(***************************************************************************)
(* Bounds of the explored inputs.                                          *)
(***************************************************************************)
MaxMembers == 3
MaxAttendance == 4
MaxVisits == 6
MaxPayments == 3
NumSalts == 2

Emails == {"a@x", "b@x"}
Passwords == {"pw1", "pw2"}
Salts == 1..NumSalts

NoEmail == "None"
NoFile == [name |-> "None"]

(***************************************************************************)
(* AUTH FUNCTIONS                                                          *)
(***************************************************************************)
\* bcrypt.hashpw(password.encode(), salt): the stored value carries the salt
\* and a digest that depends on both the salt and the password.
hashpw(password, salt) == [salt |-> salt, digest |-> <<"bcrypt", salt, password>>]

\* bcrypt.checkpw(password.encode(), hashed): re-hash with the stored salt.
checkpw(password, hashed) == hashpw(password, hashed.salt) = hashed

\* SELECT password FROM users WHERE email = ?  (the rows, in table order)
SelectPassword(email) ==
    SelectSeq(users, LAMBDA row : row.email = email)

\* faulty variant of signup_ok: the table without the UNIQUE constraint
signup_ok_NoUnique(email) == TRUE

\* INSERT INTO users (email, password): email is UNIQUE, so the insert raises
\* when a row holds the email already, and the bare except returns False
signup_ok(email) == SelectPassword(email) = << >>

signup_store(email, hashed) ==
    IF signup_ok(email)
    THEN Append(users, [email |-> email, password |-> hashed])
    ELSE users

\* result = cursor.fetchone(); result and bcrypt.checkpw(password.encode(), result[0])
login(email, password) ==
    LET result == SelectPassword(email)
    IN  result # << >> /\ checkpw(password, Head(result).password)

(***************************************************************************)
(* Uploaded data.  A table (DataFrame) is [cols, rows]: the header set and *)
(* the rows, each a function from header to cell.  A cell read from a      *)
(* spreadsheet is a number, a text or empty (NaN).                         *)
(***************************************************************************)
Num(n) == [kind |-> "num", num |-> n]
Text == [kind |-> "str", num |-> 0]
NaN == [kind |-> "nan", num |-> 0]

\* pd.DataFrame()
EmptyFrame == [cols |-> {}, rows |-> << >>]

\* DataFrame.empty: some axis has length 0
empty(df) == df.cols = {} \/ Len(df.rows) = 0

\* df[col] as the sequence of its cells
Column(df, col) == [i \in 1..Len(df.rows) |-> df.rows[i][col]]

\* Series.nunique()
nunique(cells) == Cardinality({cells[i] : i \in 1..Len(cells)})

RECURSIVE SumNums(_)
SumNums(cells) ==
    IF cells = << >> THEN 0
    ELSE (IF Head(cells).kind = "num" THEN Head(cells).num ELSE 0) + SumNums(Tail(cells))

\* Series.sum() of a non-empty column: a numeric column skips NaN; an object
\* column of texts only is concatenated; texts mixed with numbers or NaN
\* make the reduction raise TypeError.
PandasSum(cells) ==
    LET texts == {i \in 1..Len(cells) : cells[i].kind = "str"}
    IN  IF texts = {} THEN [kind |-> "num", num |-> SumNums(cells)]
        ELSE IF texts = 1..Len(cells) THEN [kind |-> "str", num |-> 0]
        ELSE [kind |-> "TypeError", num |-> 0]

\* round(x / n, 2) in hundredths, for n > 0: nearest, ties to even
Round2(x, n) ==
    LET q == (x * 100) \div n
        r == (x * 100) % n
    IN  IF 2 * r < n THEN q
        ELSE IF 2 * r > n THEN q + 1
        ELSE IF q % 2 = 0 THEN q ELSE q + 1

RECURSIVE SortedSeq(_)
SortedSeq(S) ==
    IF S = {} THEN << >>
    ELSE LET m == CHOOSE x \in S : \A y \in S : x <= y
         IN  <<m>> \o SortedSeq(S \ {m})

\* attendance.groupby("member_id").size().reset_index(name="visit_count")
GroupSize(df) ==
    LET ids == Column(df, "member_id")
        keys == SortedSeq({ids[i] : i \in 1..Len(ids)})
    IN  [k \in 1..Len(keys) |->
            [member_id |-> keys[k],
             visit_count |-> Num(Cardinality({i \in 1..Len(ids) : ids[i] = keys[k]}))]]

WithCell(row, col, v) ==
    [c \in DOMAIN row \cup {col} |-> IF c = col THEN v ELSE row[c]]

RECURSIVE MatchRows(_, _)
MatchRows(row, right) ==
    IF right = << >> THEN << >>
    ELSE (IF Head(right).member_id = row["member_id"]
          THEN <<WithCell(row, "visit_count", Head(right).visit_count)>>
          ELSE << >>) \o MatchRows(row, Tail(right))

\* faulty variant of LeftMerge: how="inner", a left row with no match is dropped
RECURSIVE LeftMerge_Inner(_, _)
LeftMerge_Inner(left, right) ==
    IF left = << >> THEN << >>
    ELSE MatchRows(Head(left), right) \o LeftMerge_Inner(Tail(left), right)

\* members.merge(visit_count, on="member_id", how="left"): every left row, in
\* order, once per matching right row, or once with NaN when none matches
RECURSIVE LeftMerge(_, _)
LeftMerge(left, right) ==
    IF left = << >> THEN << >>
    ELSE LET hit == MatchRows(Head(left), right)
         IN  (IF hit = << >> THEN <<WithCell(Head(left), "visit_count", NaN)>> ELSE hit)
             \o LeftMerge(Tail(left), right)

\* members_attendance["visit_count"].fillna(0)
fillna(rows) ==
    [i \in 1..Len(rows) |->
        IF rows[i]["visit_count"].kind = "nan"
        THEN WithCell(rows[i], "visit_count", Num(0)) ELSE rows[i]]

HighMax == 2
MediumMax == 5

\* faulty variant of risk_label: the thresholds taken as strict
risk_label_Strict(v) ==
    IF v < HighMax THEN "High Risk"
    ELSE IF v < MediumMax THEN "Medium Risk"
    ELSE "Low Risk"

risk_label(v) ==
    IF v <= HighMax THEN "High Risk"
    ELSE IF v <= MediumMax THEN "Medium Risk"
    ELSE "Low Risk"

\* members_attendance["visit_count"].apply(risk_label)
ApplyRisk(rows) ==
    [i \in 1..Len(rows) |->
        WithCell(rows[i], "risk_level", risk_label(rows[i]["visit_count"].num))]

\* Series.value_counts(): count per distinct value, NaN (empty cell) dropped
EmptyCell == ""
value_counts(cells) ==
    LET keys == {cells[i] : i \in 1..Len(cells)} \ {EmptyCell}
    IN  [k \in keys |-> Cardinality({i \in 1..Len(cells) : cells[i] = k})]

(***************************************************************************)
(* The script body after the login gate, as a chain of stages.  A stage    *)
(* takes and returns [steps, outcome, exception, messages, env]; once      *)
(* outcome is no longer "running" (st.stop() or an uncaught exception) the *)
(* remaining stages do nothing.                                            *)
(***************************************************************************)
Env0 ==
    [members |-> EmptyFrame, attendance |-> EmptyFrame, payments |-> EmptyFrame,
     total_members |-> 0, active_members |-> 0,
     total_revenue |-> Num(0), avg_revenue |-> 0,
     visit_count |-> << >>, members_attendance |-> << >>,
     status_df |-> << >>, risk_df |-> << >>, csv |-> << >>]

Start == [steps |-> << >>, outcome |-> "running", exception |-> "None",
          messages |-> << >>, env |-> Env0]

Msg(level, text, arg) == [level |-> level, text |-> text, arg |-> arg]

Stop(s, outcome, msg) ==
    [s EXCEPT !.outcome = outcome, !.messages = Append(@, msg)]

Raise(s, exc) == [s EXCEPT !.outcome = "exception", !.exception = exc]

Step(s, name) == [s EXCEPT !.steps = Append(@, name)]

\* if not uploaded_file: st.warning(...); st.stop()
FileUpload(s, file) ==
    IF file = NoFile
    THEN Stop(s, "no_file", Msg("warning", "Upload a file to continue.", ""))
    ELSE s

Sheets == {"members", "attendance", "payments"}

\* pd.read_excel(file, sheet_name=sheet) raises when the workbook has no such
\* sheet; the bare except reports it and stops the run
LoadFails(file) == file.name = "xlsx" /\ ~(Sheets \subseteq file.sheets)

LoadData(s0, file) ==
    IF s0.outcome # "running" THEN s0 ELSE
    LET s == Step(s0, "load") IN
    IF LoadFails(file)
    THEN Stop(s, "load_error",
              Msg("error", "Invalid file format or missing sheets.", ""))
    ELSE [s EXCEPT
            !.env.members = file.members,
            !.env.attendance = IF file.name = "xlsx" THEN file.attendance ELSE EmptyFrame,
            !.env.payments = IF file.name = "xlsx" THEN file.payments ELSE EmptyFrame,
            !.messages = Append(@, Msg("success", "File uploaded successfully!", ""))]

required_members == <<"member_id", "status", "plan_type", "trainer_name">>

\* faulty variant of ColumnMissing: the last required column is not checked
ColumnMissing_SkipLast(col, columns) ==
    col \notin columns /\ col # required_members[Len(required_members)]

\* col not in members.columns
ColumnMissing(col, columns) == col \notin columns

MissingColumns(columns) ==
    SelectSeq(required_members, LAMBDA col : ColumnMissing(col, columns))

\* for col in required_members: the first missing one is reported, then st.stop()
RequiredColumns(s0) ==
    IF s0.outcome # "running" THEN s0 ELSE
    LET s == Step(s0, "required_columns")
        missing == MissingColumns(s.env.members.cols)
    IN  IF missing # << >>
        THEN Stop(s, "schema_error", Msg("error", "Missing column: ", Head(missing)))
        ELSE s

\* members[members["status"] == "Active"]
IsActive(status) == status = "Active"

ActiveIds(members) ==
    {members.rows[i]["member_id"] :
        i \in {j \in 1..Len(members.rows) : IsActive(members.rows[j]["status"])}}

\* payments["amount"].sum() if not payments.empty else 0
TotalRevenue(payments) ==
    IF empty(payments) THEN Num(0)
    ELSE IF "amount" \notin payments.cols THEN [kind |-> "KeyError", num |-> 0]
    ELSE PandasSum(Column(payments, "amount"))

\* round(total_revenue / total_members, 2) if total_members else 0, in hundredths
AvgRevenue(total_revenue, total_members) ==
    IF total_members = 0 THEN 0 ELSE Round2(total_revenue.num, total_members)

Kpi(s0) ==
    IF s0.outcome # "running" THEN s0 ELSE
    LET s == [Step(s0, "kpi") EXCEPT
                !.env.total_members = nunique(Column(s0.env.members, "member_id")),
                !.env.active_members = Cardinality(ActiveIds(s0.env.members))]
        rev == TotalRevenue(s.env.payments)
    IN  IF rev.kind \in {"KeyError", "TypeError"} THEN Raise(s, rev.kind)
        ELSE IF rev.kind = "str" /\ s.env.total_members # 0
             THEN Raise([s EXCEPT !.env.total_revenue = rev], "TypeError")
        ELSE [s EXCEPT
                !.env.total_revenue = rev,
                !.env.avg_revenue = AvgRevenue(rev, s.env.total_members)]

\* visit_count, the left merge and fillna(0)
Attendance(s0) ==
    IF s0.outcome # "running" THEN s0 ELSE
    LET s == Step(s0, "attendance")
        att == s.env.attendance
    IN  IF ~empty(att) /\ "member_id" \notin att.cols THEN Raise(s, "KeyError")
        ELSE LET vc == IF ~empty(att) THEN GroupSize(att) ELSE << >>
             IN  [s EXCEPT
                    !.env.visit_count = vc,
                    !.env.members_attendance = fillna(LeftMerge(s.env.members.rows, vc))]

Risk(s0) ==
    IF s0.outcome # "running" THEN s0 ELSE
    LET s == Step(s0, "risk")
    IN  [s EXCEPT !.env.members_attendance = ApplyRisk(@)]

Pages == {"Dashboard", "Attendance", "Risk Analysis", "Raw Data"}

\* members_attendance[members_attendance["risk_level"] == "High Risk"]
high_risk(rows) == SelectSeq(rows, LAMBDA r : r["risk_level"] = "High Risk")

\* The page bodies.  The charts are left out; what a page computes from the
\* pipeline's tables is kept: the Dashboard's status and risk counts (and its
\* inner merge with payments, which needs their member_id column), and the
\* rows the Attendance and Risk Analysis pages export as CSV.
Render(s0, pg) ==
    IF s0.outcome # "running" THEN s0 ELSE
    LET s == Step(s0, "render")
        e == s.env
    IN  IF pg = "Dashboard"
        THEN IF ~empty(e.payments) /\ "member_id" \notin e.payments.cols
             THEN Raise(s, "KeyError")
             ELSE [s EXCEPT
                    !.outcome = "rendered",
                    !.env.status_df = value_counts(Column(e.members, "status")),
                    !.env.risk_df =
                        value_counts([i \in 1..Len(e.members_attendance) |->
                                        e.members_attendance[i]["risk_level"]])]
        ELSE IF pg = "Attendance"
        THEN [s EXCEPT !.outcome = "rendered", !.env.csv = e.members_attendance]
        ELSE IF pg = "Risk Analysis"
        THEN [s EXCEPT !.outcome = "rendered", !.env.csv = high_risk(e.members_attendance)]
        ELSE [s EXCEPT !.outcome = "rendered"]

\* Everything below the sidebar, for the widget values of this run
Pipeline(file, pg) ==
    Render(Risk(Attendance(Kpi(RequiredColumns(LoadData(FileUpload(Start, file), file))))), pg)

(***************************************************************************)
(* The uploads explored.  Each family varies the part of the upload one    *)
(* stage reads and keeps the rest fixed.                                   *)
(***************************************************************************)
MemberIds == {1, 2, 3}
AttendanceIds == {1, 2}
Statuses == {"Active", "active", "yes", "Inactive", EmptyCell}
Amounts == {Num(100), Num(50), Text, NaN}
IdHeaders == {"member_id", "Customer ID"}
Headers == {"member_id", "Customer ID", "status", "plan_type", "trainer_name"}
RequiredSet == {required_members[i] : i \in 1..Len(required_members)}

SeqsUpTo(S, n) == UNION {[1..k -> S] : k \in 0..n}

MembersFrame(cols, ids, sts) ==
    [cols |-> cols,
     rows |-> [i \in 1..Len(ids) |->
                [c \in cols |-> IF c \in IdHeaders THEN ids[i]
                                ELSE IF c = "status" THEN sts[i] ELSE "x"]]]

AttendanceFrame(cols, ids) ==
    [cols |-> cols,
     rows |-> [i \in 1..Len(ids) |->
                [c \in cols |-> IF c = "member_id" THEN ids[i] ELSE "2024-01-01"]]]

PaymentsFrame(cols, amounts) ==
    [cols |-> cols,
     rows |-> [i \in 1..Len(amounts) |->
                [c \in cols |-> IF c = "amount" THEN amounts[i] ELSE 1]]]

AllActive(ids) == [i \in 1..Len(ids) |-> "Active"]

Workbook(sheets, members, attendance, payments) ==
    [name |-> "xlsx", sheets |-> sheets, members |-> members,
     attendance |-> IF "attendance" \in sheets THEN attendance ELSE EmptyFrame,
     payments |-> IF "payments" \in sheets THEN payments ELSE EmptyFrame]

Csv(members) ==
    [name |-> "csv", sheets |-> {}, members |-> members,
     attendance |-> EmptyFrame, payments |-> EmptyFrame]

SomeAttendance == AttendanceFrame({"member_id", "visit_date"}, <<1>>)
SomePayments == PaymentsFrame({"member_id", "amount"}, <<Num(100), Num(50)>>)

\* members x attendance, for the merge and the risk labels: every short
\* attendance table in every order, and the long ones as k visits of member 1
\* followed by j visits of member 2
Visits(k, j) == [i \in 1..(k + j) |-> IF i <= k THEN 1 ELSE 2]

MergeFiles ==
    {Workbook(Sheets, MembersFrame(RequiredSet, ids, AllActive(ids)),
              AttendanceFrame({"member_id", "visit_date"}, att), SomePayments) :
        ids \in SeqsUpTo(MemberIds, MaxMembers),
        att \in SeqsUpTo(AttendanceIds, MaxAttendance)}
    \cup
    {Workbook(Sheets, MembersFrame(RequiredSet, ids, AllActive(ids)),
              AttendanceFrame({"member_id", "visit_date"}, Visits(k, j)), SomePayments) :
        ids \in SeqsUpTo(AttendanceIds, MaxMembers - 1),
        k \in 0..MaxVisits, j \in 0..MaxVisits}

\* members x payments, for the revenue figures
RevenueFiles ==
    {Workbook(Sheets, MembersFrame(RequiredSet, ids, AllActive(ids)), SomeAttendance,
              PaymentsFrame(pcols, amounts)) :
        ids \in SeqsUpTo(MemberIds, MaxMembers),
        amounts \in SeqsUpTo(Amounts, MaxPayments),
        pcols \in {{"member_id", "amount"}}}
    \cup
    {Workbook(Sheets, MembersFrame(RequiredSet, <<1>>, <<"Active">>), SomeAttendance,
              PaymentsFrame(pcols, <<Num(100)>>)) :
        pcols \in {{"member_id"}, {"amount"}}}

\* member rows with every status spelling
StatusFiles ==
    {Workbook(Sheets, MembersFrame(RequiredSet, [i \in 1..Len(rows) |-> rows[i][1]],
                                   [i \in 1..Len(rows) |-> rows[i][2]]),
              SomeAttendance, SomePayments) :
        rows \in SeqsUpTo(AttendanceIds \X Statuses, MaxMembers)}

\* file kind, sheets present and headers, for loading and the column check
SchemaFiles ==
    {Workbook(sheets, MembersFrame(cols, <<1, 2>>, <<"Active", "Inactive">>),
              AttendanceFrame(acols, <<1>>), SomePayments) :
        sheets \in SUBSET Sheets, cols \in SUBSET Headers,
        acols \in {{"member_id", "visit_date"}, {"visit_date"}}}
    \cup
    {Csv(MembersFrame(cols, ids, AllActive(ids))) :
        cols \in SUBSET Headers, ids \in {<< >>, <<1, 2>>}}

\* a few uploads of each kind, for the runs that are about the accounts
SampleFiles ==
    {Csv(MembersFrame(RequiredSet, <<1, 2>>, <<"Active", "Inactive">>)),
     Csv(MembersFrame({"Customer ID", "status"}, <<1>>, <<"Active">>)),
     Workbook({"members"}, MembersFrame(RequiredSet, <<1>>, <<"Active">>),
              EmptyFrame, EmptyFrame),
     Workbook(Sheets, MembersFrame(RequiredSet, <<1, 2>>, <<"Active", "yes">>),
              SomeAttendance, SomePayments),
     Workbook(Sheets, MembersFrame(RequiredSet, <<1>>, <<"Active">>),
              SomeAttendance, PaymentsFrame({"member_id", "amount"}, <<Num(100), Text>>))}

(***************************************************************************)
(* Script runs                                                             *)
(***************************************************************************)
RunLog(r) ==
    [start_logged_in |-> logged_in, steps |-> r.steps, outcome |-> r.outcome,
     exception |-> r.exception, messages |-> r.messages]

\* a run that renders the login page and stops at st.stop() (line 80); the
\* uploader and the page radio are not rendered, so their values are dropped
LoginPageLog(messages) ==
    RunLog([Start EXCEPT !.outcome = "login_page", !.messages = messages])

Init ==
    /\ users = << >>
    /\ first_signup = << >>
    /\ last_auth = [op |-> "none", email |-> NoEmail, password |-> "", result |-> FALSE]
    /\ logged_in = FALSE
    /\ user_email = NoEmail
    /\ rerun = FALSE
    /\ uploaded_file = NoFile
    /\ page = "Dashboard"
    /\ run = [start_logged_in |-> FALSE, steps |-> << >>, outcome |-> "login_page",
              exception |-> "None", messages |-> << >>]
    /\ env = Env0

\* faulty variant of LoginPageShown: the script without the login gate
LoginPageShown_NoGate == FALSE

\* if not st.session_state.logged_in:
LoginPageShown == ~logged_in

\* the login page is rendered with no button pressed (also the run that
\* st.rerun() starts after Logout)
LoginPageRun ==
    /\ LoginPageShown
    /\ rerun' = FALSE
    /\ run' = LoginPageLog(<< >>)
    /\ env' = Env0
    /\ uploaded_file' = NoFile
    /\ page' = "Dashboard"
    /\ UNCHANGED <<users, first_signup, last_auth, logged_in, user_email>>

\* choice == "Signup", "Create Account" pressed
SignupClick(email, password, salt) ==
    /\ LoginPageShown
    /\ ~rerun
    /\ LET ok == signup_ok(email) IN
        /\ users' = signup_store(email, hashpw(password, salt))
        /\ first_signup' =
            IF ok THEN [e \in DOMAIN first_signup \cup {email} |->
                            IF e = email THEN password ELSE first_signup[e]]
            ELSE first_signup
        /\ last_auth' = [op |-> "signup", email |-> email, password |-> password,
                         result |-> ok]
        /\ run' = LoginPageLog(
                    IF ok THEN <<Msg("success", "Account created. Please login.", "")>>
                    ELSE <<Msg("error", "User already exists.", "")>>)
    /\ env' = Env0
    /\ uploaded_file' = NoFile
    /\ page' = "Dashboard"
    /\ UNCHANGED <<logged_in, user_email, rerun>>

\* choice == "Login", "Login" pressed
LoginClick(email, password) ==
    /\ LoginPageShown
    /\ ~rerun
    /\ LET ok == login(email, password) IN
        /\ last_auth' = [op |-> "login", email |-> email, password |-> password,
                         result |-> ok]
        /\ logged_in' = ok
        /\ user_email' = IF ok THEN email ELSE user_email
        /\ rerun' = ok
        /\ run' = IF ok
                  THEN RunLog([Start EXCEPT !.outcome = "rerun"])
                  ELSE LoginPageLog(<<Msg("error", "Invalid credentials", "")>>)
    /\ env' = Env0
    /\ uploaded_file' = NoFile
    /\ page' = "Dashboard"
    /\ UNCHANGED <<users, first_signup>>

\* the sidebar's Logout button pressed: the run ends at st.rerun() (line 91),
\* above the uploader and the page radio, whose values the login page drops
LogoutClick ==
    /\ ~LoginPageShown
    /\ ~rerun
    /\ logged_in' = FALSE
    /\ user_email' = NoEmail
    /\ rerun' = TRUE
    /\ run' = RunLog([Start EXCEPT !.outcome = "rerun"])
    /\ env' = Env0
    /\ uploaded_file' = NoFile
    /\ page' = "Dashboard"
    /\ UNCHANGED <<users, first_signup, last_auth>>

\* a run past the gate with Logout not pressed
RunApp(file, pg) ==
    LET r == Pipeline(file, pg) IN
    /\ run' = RunLog(r)
    /\ env' = r.env
    /\ rerun' = FALSE
    /\ uploaded_file' = file
    /\ page' = pg
    /\ UNCHANGED <<users, first_signup, last_auth, logged_in, user_email>>

\* the run st.rerun() starts after a successful login
Rerun ==
    /\ ~LoginPageShown
    /\ rerun
    /\ RunApp(uploaded_file, page)

SelectPage(pg) ==
    /\ ~LoginPageShown
    /\ ~rerun
    /\ pg # page
    /\ RunApp(uploaded_file, pg)

UploadFile(file) ==
    /\ ~LoginPageShown
    /\ ~rerun
    /\ uploaded_file = NoFile
    /\ RunApp(file, page)

RemoveFile ==
    /\ ~LoginPageShown
    /\ ~rerun
    /\ uploaded_file # NoFile
    /\ RunApp(NoFile, page)

\* One script run, for the accounts and uploads a specification explores
NextOver(emails, passwords, salts, files) ==
    \/ LoginPageRun
    \/ \E e \in emails, p \in passwords, s \in salts : SignupClick(e, p, s)
    \/ \E e \in emails, p \in Passwords : LoginClick(e, p)
    \/ LogoutClick
    \/ Rerun
    \/ \E pg \in Pages : SelectPage(pg)
    \/ \E f \in files : UploadFile(f)
    \/ RemoveFile

\* the accounts, with a few uploads
Next == NextOver(Emails, Passwords, Salts, SampleFiles)
Spec == Init /\ [][Next]_vars

\* one account, with the uploads of one family each
OneAccount(files) == NextOver({"a@x"}, {"pw1"}, {1}, files \cup SampleFiles)

NextMerge == OneAccount(MergeFiles)
SpecMerge == Init /\ [][NextMerge]_vars

NextRevenue == OneAccount(RevenueFiles)
SpecRevenue == Init /\ [][NextRevenue]_vars

NextStatus == OneAccount(StatusFiles)
SpecStatus == Init /\ [][NextStatus]_vars

NextSchema == OneAccount(SchemaFiles)
SpecSchema == Init /\ [][NextSchema]_vars

(***************************************************************************)
(* Properties                                                              *)
(***************************************************************************)
StepsOf(r) == {r.steps[i] : i \in 1..Len(r.steps)}

PipelineSteps == {"load", "required_columns", "kpi", "attendance", "risk", "render"}

\* C1: a run executes pipeline steps (load, column check, KPIs, merge, risk,
\* rendering) only if logged_in was true when the run started; while
\* logged_in is false (initially, and after Logout) the last run executed
\* none; and logged_in turns true only in a step whose login(email, password)
\* call returned true for credentials the store verifies.
C1_PipelineOnlyWhenLoggedIn ==
    /\ [](StepsOf(run) \subseteq PipelineSteps)
    /\ [](StepsOf(run) # {} => run.start_logged_in)
    /\ [](~logged_in => StepsOf(run) = {})
    /\ [][(~logged_in /\ logged_in') =>
            /\ last_auth'.op = "login"
            /\ last_auth'.result
            /\ last_auth'.email = user_email'
            /\ login(last_auth'.email, last_auth'.password)]_vars
    /\ [][(logged_in /\ ~logged_in') => (StepsOf(run') = {} /\ rerun')]_vars

\* a logged-in run that went through every pipeline step
C1_Witness ==
    /\ logged_in
    /\ run.start_logged_in
    /\ StepsOf(run) = PipelineSteps
    /\ run.outcome = "rendered"

Registered == {users[i].email : i \in 1..Len(users)}

\* C10: the users table holds at most one row per email, the row of the first
\* successful signup for it; a signup for a registered email returns False and
\* changes no row; login(email, password) is true exactly when the email is
\* registered and the password is the one of that first signup.
C10_UserStore ==
    /\ [](\A i, j \in 1..Len(users) : users[i].email = users[j].email => i = j)
    /\ [](Registered = DOMAIN first_signup)
    /\ [](\A e \in Emails, p \in Passwords :
            login(e, p) <=> (e \in DOMAIN first_signup /\ p = first_signup[e]))
    /\ [](last_auth.op = "login" =>
            (last_auth.result <=>
                /\ last_auth.email \in DOMAIN first_signup
                /\ last_auth.password = first_signup[last_auth.email]))
    /\ [][\A i \in 1..Len(users) : i <= Len(users') /\ users'[i] = users[i]]_vars
    /\ [][\A e \in DOMAIN first_signup :
            e \in DOMAIN first_signup' /\ first_signup'[e] = first_signup[e]]_vars
    /\ [][(last_auth' # last_auth /\ last_auth'.op = "signup") =>
            /\ last_auth'.result <=> (last_auth'.email \notin Registered)
            /\ ~last_auth'.result => users' = users]_vars

\* a second signup for a registered email, with another password, was refused
C10_Witness ==
    /\ last_auth.op = "signup"
    /\ ~last_auth.result
    /\ last_auth.email \in DOMAIN first_signup
    /\ last_auth.password # first_signup[last_auth.email]
    /\ Len(users) = 2

IdsOf(df) == [i \in 1..Len(df.rows) |-> df.rows[i]["member_id"]]

\* number of attendance rows of the run whose member_id is id
VisitsOf(id) ==
    Cardinality({j \in 1..Len(env.attendance.rows) :
                    env.attendance.rows[j]["member_id"] = id})

CellsOf(rows, col) == [i \in 1..Len(rows) |-> rows[i][col]]

\* C2: once the merge has run, members_attendance has one row per members
\* row, in order and with the member's cells unchanged, and its visit_count
\* is the number of attendance rows with that member_id (0 when there is
\* none, also when the attendance table is empty).
C2_LeftJoin ==
    "risk" \in StepsOf(run) =>
        /\ Len(env.members_attendance) = Len(env.members.rows)
        /\ \A i \in 1..Len(env.members.rows) :
            /\ \A c \in env.members.cols :
                env.members_attendance[i][c] = env.members.rows[i][c]
            /\ env.members_attendance[i]["visit_count"]
                = Num(VisitsOf(env.members.rows[i]["member_id"]))

\* three members, one without visits and one with several, attendance not empty
C2_Witness ==
    /\ "risk" \in StepsOf(run)
    /\ Len(env.members.rows) = 3
    /\ ~empty(env.attendance)
    /\ \E i, j \in 1..3 :
        /\ env.members_attendance[i]["visit_count"] = Num(0)
        /\ env.members_attendance[j]["visit_count"].num >= 2

\* C3: every member's risk_level follows from its visit_count alone: High
\* Risk up to 2 visits, Medium Risk for 3 to 5, Low Risk above 5; members
\* [1,2,3] with attendance rows [1,1,1,2] get visit counts 3, 1, 0 and the
\* labels Medium, High, High.
C3_RiskByVisitCount ==
    "risk" \in StepsOf(run) =>
        /\ \A i \in 1..Len(env.members_attendance) :
            LET v == env.members_attendance[i]["visit_count"].num
                r == env.members_attendance[i]["risk_level"]
            IN  /\ v <= 2 => r = "High Risk"
                /\ (3 <= v /\ v <= 5) => r = "Medium Risk"
                /\ v > 5 => r = "Low Risk"
        /\ (IdsOf(env.members) = <<1, 2, 3>> /\ IdsOf(env.attendance) = <<1, 1, 1, 2>>) =>
            /\ CellsOf(env.members_attendance, "visit_count") = <<Num(3), Num(1), Num(0)>>
            /\ CellsOf(env.members_attendance, "risk_level")
                = <<"Medium Risk", "High Risk", "High Risk">>

\* the scenario of the claim has been processed
C3_Witness ==
    /\ "risk" \in StepsOf(run)
    /\ IdsOf(env.members) = <<1, 2, 3>>
    /\ IdsOf(env.attendance) = <<1, 1, 1, 2>>
    /\ run.outcome = "rendered"

ErrorsOf(r) == SelectSeq(r.messages, LAMBDA m : m.level = "error")

MissingSet(df) == RequiredSet \ df.cols

MembersValid(file) ==
    /\ file.name = "csv" \/ "members" \in file.sheets
    /\ RequiredSet \subseteq file.members.cols

AttendanceAbsent(file) == file.name = "csv" \/ "attendance" \notin file.sheets
PaymentsAbsent(file) == file.name = "csv" \/ "payments" \notin file.sheets

\* C4: an upload with a valid members table and no attendance and/or no
\* payments source (a CSV, or a workbook without that sheet) reaches the KPI
\* computation, with total_revenue = 0 when payments are absent and
\* visit_count = 0 for every member when attendance is absent.
C4_MissingOptionalNeverAborts ==
    (/\ uploaded_file # NoFile
     /\ "load" \in StepsOf(run)
     /\ MembersValid(uploaded_file)
     /\ AttendanceAbsent(uploaded_file) \/ PaymentsAbsent(uploaded_file)) =>
        /\ "kpi" \in StepsOf(run)
        /\ PaymentsAbsent(uploaded_file) => env.total_revenue = Num(0)
        /\ (AttendanceAbsent(uploaded_file) /\ "risk" \in StepsOf(run)) =>
            \A i \in 1..Len(env.members_attendance) :
                env.members_attendance[i]["visit_count"] = Num(0)

\* the run raised while computing the KPIs (lines 159-167)
KpiRaised == run.outcome = "exception" /\ run.steps[Len(run.steps)] = "kpi"

\* the amount coercion of the specification: a number is itself, a text or
\* an empty cell is 0
CoercedAmount(cell) == IF cell.kind = "num" THEN cell.num ELSE 0

RECURSIVE CoercedSum(_)
CoercedSum(cells) ==
    IF cells = << >> THEN 0 ELSE CoercedAmount(Head(cells)) + CoercedSum(Tail(cells))

\* C6: for every payments table total_revenue is the sum of the coerced
\* amounts (a text or empty amount counting 0), it is >= 0, a malformed
\* amount does not make the sum raise, and no payment rows give 0.
C6_TotalRevenueIsCoercedSum ==
    (/\ "kpi" \in StepsOf(run)
     /\ empty(env.payments) \/ "amount" \in env.payments.cols) =>
        /\ ~KpiRaised
        /\ env.total_revenue =
            Num(IF empty(env.payments) THEN 0
                ELSE CoercedSum(Column(env.payments, "amount")))
        /\ env.total_revenue.num >= 0

\* C7: a run whose members table has no rows computes total_members = 0 and
\* avg_revenue = 0 without raising, whatever the payments table holds, and
\* avg_revenue is 0 whenever total_members is 0.
C7_AvgRevenueZeroWithoutMembers ==
    /\ ("kpi" \in StepsOf(run) /\ Len(env.members.rows) = 0) =>
        /\ ~KpiRaised
        /\ env.total_members = 0
        /\ env.avg_revenue = 0
    /\ ("kpi" \in StepsOf(run) /\ ~KpiRaised /\ env.total_members = 0) =>
        env.avg_revenue = 0

\* the alias table of the specification, on the headers explored
Canonical(header) == IF header \in IdHeaders THEN "member_id" ELSE header

\* C8: a members table whose headers resolve, through the alias table, to
\* all four required fields passes the column check; "Customer ID" counts
\* as member_id.
C8_AliasHeadersAccepted ==
    (/\ "required_columns" \in StepsOf(run)
     /\ RequiredSet \subseteq {Canonical(h) : h \in env.members.cols}) =>
        run.outcome # "schema_error"

\* the status coercion of the specification, on the spellings explored
CoercedStatus(raw) ==
    IF raw \in {"Active", "active", "yes"} THEN "Active" ELSE "Inactive"

\* C9: active_members counts the distinct members whose raw status maps to
\* Active (active/yes in any case), every other value counting as Inactive,
\* and the Dashboard's status distribution has no key but Active and Inactive.
C9_StatusCanonical ==
    /\ "kpi" \in StepsOf(run) =>
        env.active_members =
            Cardinality({env.members.rows[i]["member_id"] :
                i \in {j \in 1..Len(env.members.rows) :
                        CoercedStatus(env.members.rows[j]["status"]) = "Active"}})
    /\ (run.outcome = "rendered" /\ page = "Dashboard") =>
        DOMAIN env.status_df \subseteq {"Active", "Inactive"}

====
